---------------------------- MODULE Spec2Model ----------------------------
(***************************************************************************)
(* A model of round_dxf.py: the fillet calculator add_fillet, the contour  *)
(* rebuilder main and the steps that follow it (checks, saveas).           *)
(*                                                                         *)
(* Numbers.  Every length and coordinate is an integer number of 0.0001    *)
(* drawing units, so that round(x, 3) is the rounding to a multiple of     *)
(* Grid and a coordinate with a fourth decimal can be written down.  The   *)
(* drawings are taken at the scale 1:1000 (a side of 20 is 0.0200, that is *)
(* 200 model units, a radius of 5 is 50): all products then stay inside    *)
(* the 32-bit integers of the model checker.                               *)
(*                                                                         *)
(* Angles are integers of micro-radians, PI being 3141592.  The edges of   *)
(* the drawings are taken along the twelve directions whose cosine and     *)
(* sine are rational, (1,0), (4/5,3/5), (3/5,4/5) and their images in the  *)
(* other quadrants; all edge lengths are then integers and math.sqrt is    *)
(* exact on them.  Arithmetic on floats is modelled as exact arithmetic    *)
(* followed by the roundings the code performs.                            *)
(***************************************************************************)
EXTENDS Integers, Sequences, FiniteSets, TLC

(***************************************************************************)
(* Bounds of the model.                                                    *)
(***************************************************************************)
MaxLen == 3
MaxContours == 2

(***************************************************************************)
(* Grid: the step of round(., 3), in model units.  PI: math.pi, in         *)
(* micro-radians (an even number, so that PI/2 is exact).                  *)
(***************************************************************************)
Grid == 10
PI == 3141592

Abs(x) == IF x < 0 THEN -x ELSE x

Min(a, b) == IF a < b THEN a ELSE b

RECURSIVE GCD(_, _)
GCD(a, b) == IF b = 0 THEN a ELSE GCD(b, a % b)

RECURSIVE SqrtBetween(_, _, _)
SqrtBetween(n, lo, hi) ==
    IF lo = hi THEN lo
    ELSE LET mid == (lo + hi + 1) \div 2
         IN  IF mid * mid <= n THEN SqrtBetween(n, mid, hi)
             ELSE SqrtBetween(n, lo, mid - 1)

\* math.sqrt on the squares of integers that the drawings give; the integer
\* part on any other number.  (No distance of the model reaches 1024.)
Sqrt(n) == SqrtBetween(n, 0, 1023)

\* The integers round can give for n/d (d > 0): the nearest one; and either
\* neighbour when n/d lies exactly halfway, where the float that stands for
\* n/d falls on one side or the other.
RoundDiv(n, d) ==
    LET q == n \div d
        rem == n % d
    IN  IF 2 * rem < d THEN {q}
        ELSE IF 2 * rem > d THEN {q + 1}
        ELSE {q, q + 1}

\* round(n/d, 3): the values it can give
Round3(n, d) == {Grid * k : k \in RoundDiv(n, Grid * d)}

\* (round(p[0],3), round(p[1],3)): the values it can give
RoundPoint(p) == {<<x, y>> : x \in Round3(p[1], 1), y \in Round3(p[2], 1)}

\* distance(p0, p1)
Distance(p0, p1) ==
    Sqrt((p1[1] - p0[1]) * (p1[1] - p0[1]) + (p1[2] - p0[2]) * (p1[2] - p0[2]))

(***************************************************************************)
(* Trigonometry on the twelve directions.  A direction is written as five  *)
(* times its unit vector.                                                  *)
(***************************************************************************)
Dirs ==
    {<<5, 0>>, <<-5, 0>>, <<0, 5>>, <<0, -5>>} \cup
    {<<sx * 4, sy * 3>> : sx \in {-1, 1}, sy \in {-1, 1}} \cup
    {<<sx * 3, sy * 4>> : sx \in {-1, 1}, sy \in {-1, 1}}

\* math.atan2 of a vector of the first quadrant, reduced to lowest terms.
BaseAngle(ax, ay) ==
    CASE <<ax, ay>> = <<1, 0>> -> 0
      [] <<ax, ay>> = <<4, 3>> -> 643501
      [] <<ax, ay>> = <<3, 4>> -> 927295
      [] <<ax, ay>> = <<0, 1>> -> PI \div 2
      [] <<ax, ay>> = <<0, 0>> -> 0

\* math.atan2(y, x), a value in (-PI, PI]
Atan2(y, x) ==
    LET g == GCD(Abs(x), Abs(y))
        b == IF g = 0 THEN 0 ELSE BaseAngle(Abs(x) \div g, Abs(y) \div g)
    IN  IF x >= 0 THEN (IF y >= 0 THEN b ELSE -b)
        ELSE (IF y >= 0 THEN PI - b ELSE b - PI)

\* an angle brought back into (-PI, PI]
Wrap(a) == IF a > PI THEN a - 2 * PI ELSE IF a <= -PI THEN a + 2 * PI ELSE a

\* The direction of each of the twelve angles.
DirTable ==
    [a \in {Atan2(u[2], u[1]) : u \in Dirs} |->
        CHOOSE u \in Dirs : Atan2(u[2], u[1]) = a]

DirOf(a) == DirTable[Wrap(a)]

\* 5 * math.cos(a), 5 * math.sin(a)
Cos5(a) == DirOf(a)[1]
Sin5(a) == DirOf(a)[2]

\* math.degrees(a), in hundredths of a degree
Degrees(a) ==
    LET n == a * 180
    IN  (n \div PI) * 100 + ((n % PI) * 100 + PI \div 2) \div PI

(***************************************************************************)
(* add_fillet.  With h = abs(angle2 - angle1) / 2 and b = bisect_angle,    *)
(*     2 sin(h) cos(b) = sin(hi) - sin(lo)                                 *)
(*     2 sin(h) sin(b) = cos(lo) - cos(hi)                                 *)
(*     2 sin(h) sin(h) = 1 - cos(hi - lo)                                  *)
(* where hi and lo are the larger and the smaller of angle1 and angle2, so *)
(* the products dist*cos(bisect_angle) and dist*sin(bisect_angle) are the  *)
(* rationals radius*BisectCos/Divisor and radius*BisectSin/Divisor below.  *)
(***************************************************************************)

\* a_diff, brought into [-PI, PI] as the code does
ADiff(angle1, angle2) ==
    LET a_diff == angle2 - angle1
    IN  IF a_diff < -PI THEN a_diff + 2 * PI
        ELSE IF PI < a_diff THEN a_diff - 2 * PI
        ELSE a_diff

\* StartA without the case of a positive a_diff.
StartAOneSide(angle1, angle2) == angle1 + PI \div 2

\* start_a and end_a, the angles of the two tangent points seen from the centre
StartA(angle1, angle2) ==
    IF 0 < ADiff(angle1, angle2) THEN angle1 - PI \div 2 ELSE angle1 + PI \div 2

EndA(angle1, angle2) ==
    IF 0 < ADiff(angle1, angle2) THEN angle2 + PI \div 2 ELSE angle2 - PI \div 2

\* Divisor with the cosine in the place of the sine: 50 * cos(.../2)^2.
DivisorCos(angle1, angle2) ==
    25 + (Cos5(angle1) * Cos5(angle2) + Sin5(angle1) * Sin5(angle2))

\* 50 * sin(abs(angle2 - angle1) / 2)^2: zero exactly when the divisor
\* math.sin(abs(angle2 - angle1) / 2) of dist is zero
Divisor(angle1, angle2) ==
    25 - (Cos5(angle1) * Cos5(angle2) + Sin5(angle1) * Sin5(angle2))

\* 50 * sin(abs(angle2 - angle1) / 2) * cos(bisect_angle)
BisectCos(angle1, angle2) ==
    LET hi == IF angle1 < angle2 THEN angle2 ELSE angle1
        lo == IF angle1 < angle2 THEN angle1 ELSE angle2
    IN  5 * (Sin5(hi) - Sin5(lo))

\* 50 * sin(abs(angle2 - angle1) / 2) * sin(bisect_angle)
BisectSin(angle1, angle2) ==
    LET hi == IF angle1 < angle2 THEN angle2 ELSE angle1
        lo == IF angle1 < angle2 THEN angle1 ELSE angle2
    IN  5 * (Cos5(lo) - Cos5(hi))

\* ChooseCenter keeping the centre that is farther from the middle of p0, p2.
ChooseCenterFar(p0, p1, p2, radius, angle1, angle2) ==
    LET d == Divisor(angle1, angle2)
        ox == radius * BisectCos(angle1, angle2)
        oy == radius * BisectSin(angle1, angle2)
        fillet_center == <<p1[1] * d + ox, p1[2] * d + oy>>
        fillet_center2 == <<p1[1] * d - ox, p1[2] * d - oy>>
        mid2 == <<p0[1] + p2[1], p0[2] + p2[2]>>
        Dist2(c) == (d * mid2[1] - 2 * c[1]) * (d * mid2[1] - 2 * c[1])
                  + (d * mid2[2] - 2 * c[2]) * (d * mid2[2] - 2 * c[2])
    IN  IF Dist2(fillet_center2) > Dist2(fillet_center) THEN {fillet_center2}
        ELSE {fillet_center}

\* The centres the code can keep, before its rounding, as pairs of numerators
\* over Divisor: fillet_center, or fillet_center2 when that one is strictly
\* nearer to the middle of p0 and p2.  When the two are exactly as near (the
\* edges are opposite), the floats decide, and either can be kept.
ChooseCenter(p0, p1, p2, radius, angle1, angle2) ==
    LET d == Divisor(angle1, angle2)
        ox == radius * BisectCos(angle1, angle2)
        oy == radius * BisectSin(angle1, angle2)
        fillet_center == <<p1[1] * d + ox, p1[2] * d + oy>>
        fillet_center2 == <<p1[1] * d - ox, p1[2] * d - oy>>
        \* twice mid_point
        mid2 == <<p0[1] + p2[1], p0[2] + p2[2]>>
        \* the square of 2*d*distance(mid_point, c)
        Dist2(c) == (d * mid2[1] - 2 * c[1]) * (d * mid2[1] - 2 * c[1])
                  + (d * mid2[2] - 2 * c[2]) * (d * mid2[2] - 2 * c[2])
    IN  IF Dist2(fillet_center2) < Dist2(fillet_center) THEN {fillet_center2}
        ELSE IF Dist2(fillet_center) < Dist2(fillet_center2) THEN {fillet_center}
        ELSE {fillet_center, fillet_center2}

\* fillet_center after round(., 3)
FilletCenter(p0, p1, p2, radius, angle1, angle2) ==
    LET d == Divisor(angle1, angle2)
    IN  UNION {{<<x, y>> : x \in Round3(c[1], d), y \in Round3(c[2], d)} :
                  c \in ChooseCenter(p0, p1, p2, radius, angle1, angle2)}

\* (round(center[0] + radius*cos(a), 3), round(center[1] + radius*sin(a), 3))
TangentPoint(center, radius, a) ==
    {<<x, y>> : x \in Round3(center[1] * 5 + radius * Cos5(a), 5),
                y \in Round3(center[2] * 5 + radius * Sin5(a), 5)}

\* Whether add_fillet returns: the division by math.sin(...) is defined.
FilletDefined(p0, p1, p2) ==
    LET angle1 == Atan2(p0[2] - p1[2], p0[1] - p1[1])
        angle2 == Atan2(p2[2] - p1[2], p2[1] - p1[1])
    IN  Divisor(angle1, angle2) # 0

\* add_fillet: the outcomes of a call that returns, each with the arc added to
\* the modelspace and the pair of tangent points returned.
AddFillet(p0, p1, p2, radius) ==
    LET angle1 == Atan2(p0[2] - p1[2], p0[1] - p1[1])
        angle2 == Atan2(p2[2] - p1[2], p2[1] - p1[1])
        start_a == StartA(angle1, angle2)
        end_a == EndA(angle1, angle2)
        swap == 0 < ADiff(angle1, angle2)
    IN  UNION {
          {[arc |-> [type |-> "ARC",
                     center |-> center,
                     radius |-> radius,
                     start_angle |-> Degrees(IF swap THEN end_a ELSE start_a),
                     end_angle |-> Degrees(IF swap THEN start_a ELSE end_a)],
            new_p |-> <<t0, t1>>] :
               t0 \in TangentPoint(center, radius, start_a),
               t1 \in TangentPoint(center, radius, end_a)} :
          center \in FilletCenter(p0, p1, p2, radius, angle1, angle2)}

(***************************************************************************)
(* The drawings.  A contour is the list entity.get_points() gives.  The    *)
(* vertices lie on three corners and the centre of a rectangle of 16 by 12 *)
(* grid steps, whose pairwise distances are all integers, or on the        *)
(* corners of an axis-aligned rectangle; Shift moves a whole contour by a  *)
(* fraction of a grid step, which gives its coordinates a fourth decimal.  *)
(***************************************************************************)
PointSet == {<<0, 0>>, <<160, 0>>, <<160, 120>>, <<80, 60>>}

Sides == {60, 100, 200}

Shifts == {0, 4}

Radii == {-50, 30}

Rectangle(w, h) == <<<<0, 0>>, <<w, 0>>, <<w, h>>, <<0, h>>>>

Reverse(c) == [k \in 1..Len(c) |-> c[Len(c) + 1 - k]]

Shift(c, d) == [k \in 1..Len(c) |-> <<c[k][1] + d, c[k][2] - d>>]

Shapes ==
    UNION {[1..n -> PointSet] : n \in 0..MaxLen}
    \cup {Rectangle(w, h) : w \in Sides, h \in Sides}
    \cup {Reverse(Rectangle(w, h)) : w \in Sides, h \in Sides}
    \cup {Rectangle(160, 120), Reverse(Rectangle(160, 120))}

Contours == {Shift(c, d) : c \in Shapes, d \in Shifts}

\* A name that is not bound yet.
None == <<>>

(***************************************************************************)
(* The state.  radius, skip: main's parameters.  pending: how many more    *)
(* contours the query can give.  points, first, memory, i, nb_lines, p, r,     *)
(* new_p: main's locals of these names (p is the triple p0, p1, p2).       *)
(* added: the entities added to the modelspace for the current contour, in *)
(* the order of the calls; nb_arc, nb_line: the numbers of ARC and LINE    *)
(* entities added to the modelspace so far; types: the histogram checks    *)
(* prints; printed: the number of lines of main's last message.            *)
(* chain: the primitives of the current contour as pairs (from, to), in    *)
(* the order in which the rebuilt contour runs through them: the line to a *)
(* fillet before its arc, the arc from its first to its second tangent     *)
(* point.  It records the calls; the program does not read it.             *)
(***************************************************************************)
VARIABLES radius, skip, pending, pc, error, points, first, memory, i,
          nb_lines, p, r, new_p, added, nb_arc, nb_line, chain, types, printed

vars == <<radius, skip, pending, pc, error, points, first, memory, i,
          nb_lines, p, r, new_p, added, nb_arc, nb_line, chain, types, printed>>

Line(start, end) == [type |-> "LINE", start |-> start, end |-> end]

Init ==
    /\ radius \in Radii
    /\ skip \in BOOLEAN
    /\ pending = MaxContours
    /\ pc = "main"
    /\ error = "none"
    /\ points = None
    /\ first = None
    /\ memory = None
    /\ i = 0
    /\ nb_lines = 0
    /\ p = None
    /\ r = 0
    /\ new_p = None
    /\ added = <<>>
    /\ nb_arc = 0
    /\ nb_line = 0
    /\ chain = <<>>
    /\ types = None
    /\ printed = -1

\* main, up to its loop over the contours
Main ==
    /\ pc = "main"
    /\ radius' = Abs(radius)
    /\ nb_lines' = 0
    /\ pc' = "entity"
    /\ UNCHANGED <<skip, pending, error, points, first, memory, i, p, r, new_p,
                   added, nb_arc, nb_line, chain, types, printed>>

\* The head of the loop over the contours, for the next contour: get_points,
\* first and memory.  points[-1] raises IndexError on an empty list.
NextEntity ==
    /\ pc = "entity"
    /\ pending > 0
    /\ \E c \in Contours :
        /\ points' = c
        /\ pending' = pending - 1
        /\ first' = IF 0 < Len(c) THEN <<c[1][1], c[1][2]>> ELSE first
        /\ IF Len(c) = 0
           THEN /\ pc' = "failed"
                /\ error' = "IndexError"
                /\ UNCHANGED <<memory, i>>
           ELSE /\ memory' = <<c[Len(c)][1], c[Len(c)][2]>>
                /\ i' = 0
                /\ pc' = "vertex"
                /\ UNCHANGED error
    /\ UNCHANGED <<radius, skip, nb_lines, p, r, new_p, added, nb_arc, nb_line,
                   chain, types, printed>>

\* The query has no more contours: main goes on to checks.
NoMoreEntity ==
    /\ pc = "entity"
    /\ pending < MaxContours
    /\ pc' = "checks"
    /\ UNCHANGED <<radius, skip, pending, error, points, first, memory, i,
                   nb_lines, p, r, new_p, added, nb_arc, nb_line, chain, types,
                   printed>>

\* EffectiveRadius with >= in the place of >.
EffectiveRadiusGe(p0, p1, p2, rad, skp) ==
    IF Distance(p0, p1) >= 2 * rad /\ Distance(p1, p2) >= 2 * rad THEN rad
    ELSE IF ~skp THEN Min(Distance(p0, p1), Distance(p1, p2)) \div 2
    ELSE 0

\* The radius main gives the vertex p1: radius, half the shorter edge, or 0.
EffectiveRadius(p0, p1, p2, rad, skp) ==
    IF Distance(p0, p1) > 2 * rad /\ Distance(p1, p2) > 2 * rad THEN rad
    ELSE IF ~skp THEN Min(Distance(p0, p1), Distance(p1, p2)) \div 2
    ELSE 0

\* Whether main adds the line from memory to the first tangent point.
ConnectFillet(mem, t0) == Distance(mem, t0) # 0

\* One turn of the loop over the vertices.
Vertex ==
    /\ pc = "vertex"
    /\ i < Len(points)
    /\ \E p0 \in RoundPoint(points[IF i = 0 THEN Len(points) ELSE i]),
          p1 \in RoundPoint(points[i + 1]),
          p2 \in RoundPoint(points[((i + 1) % Len(points)) + 1]) :
        LET rr == EffectiveRadius(p0, p1, p2, radius, skip)
        IN  /\ p' = <<p0, p1, p2>>
            /\ r' = rr
            /\ IF rr # 0
               THEN IF ~FilletDefined(p0, p1, p2)
                    THEN \* add_fillet raises ZeroDivisionError
                         /\ pc' = "failed"
                         /\ error' = "ZeroDivisionError"
                         /\ UNCHANGED <<i, new_p, first, memory, added, nb_arc,
                                        nb_line, nb_lines, chain>>
                    ELSE \E f \in AddFillet(p0, p1, p2, rr) :
                         LET connect == i # 0 /\ ConnectFillet(memory, f.new_p[1])
                             line == Line(memory, f.new_p[1])
                         IN  /\ new_p' = f.new_p
                             /\ added' = IF connect
                                         THEN added \o <<f.arc, line>>
                                         ELSE Append(added, f.arc)
                             /\ chain' = IF connect
                                         THEN chain \o <<<<memory, f.new_p[1]>>, f.new_p>>
                                         ELSE Append(chain, f.new_p)
                             /\ nb_arc' = nb_arc + 1
                             /\ nb_line' = IF connect THEN nb_line + 1 ELSE nb_line
                             /\ nb_lines' = IF connect THEN nb_lines + 1 ELSE nb_lines
                             /\ first' = IF i = 0 THEN <<f.new_p[1][1], f.new_p[1][2]>>
                                         ELSE first
                             /\ memory' = <<f.new_p[2][1], f.new_p[2][2]>>
                             /\ i' = i + 1
                             /\ UNCHANGED <<pc, error>>
               ELSE /\ added' = IF i # 0 THEN Append(added, Line(memory, p1)) ELSE added
                    /\ chain' = IF i # 0 THEN Append(chain, <<memory, p1>>) ELSE chain
                    /\ nb_line' = IF i # 0 THEN nb_line + 1 ELSE nb_line
                    /\ memory' = <<p1[1], p1[2]>>
                    /\ i' = i + 1
                    /\ UNCHANGED <<pc, error, new_p, first, nb_arc, nb_lines>>
    /\ UNCHANGED <<radius, skip, pending, points, types, printed>>

\* After the last vertex: the closing line.
CloseContour ==
    /\ pc = "vertex"
    /\ i = Len(points)
    /\ IF 0 < Len(points)
       THEN /\ added' = Append(added, Line(memory, first))
            /\ chain' = Append(chain, <<memory, first>>)
            /\ nb_line' = nb_line + 1
            /\ nb_lines' = nb_lines + 1
       ELSE UNCHANGED <<added, chain, nb_line, nb_lines>>
    /\ pc' = "delete"
    /\ UNCHANGED <<radius, skip, pending, error, points, first, memory, i, p, r,
                   new_p, nb_arc, types, printed>>

\* delete_entity, and back to the head of the loop.  The locals keep their
\* values in the program; each is assigned before it is read again, and the
\* model forgets them here, with its record of the contour just rebuilt.
DeleteEntity ==
    /\ pc = "delete"
    /\ pc' = "entity"
    /\ points' = None
    /\ first' = None
    /\ memory' = None
    /\ i' = 0
    /\ p' = None
    /\ r' = 0
    /\ new_p' = None
    /\ added' = <<>>
    /\ chain' = <<>>
    /\ UNCHANGED <<radius, skip, pending, error, nb_lines, nb_arc, nb_line,
                   types, printed>>

\* checks: the histogram of the entity types.  (The drawings hold contours
\* only, which main has deleted, and no z coordinate.)
Checks ==
    /\ pc = "checks"
    /\ types' = [ARC |-> nb_arc, LINE |-> nb_line]
    /\ pc' = "save"
    /\ UNCHANGED <<radius, skip, pending, error, points, first, memory, i,
                   nb_lines, p, r, new_p, added, nb_arc, nb_line, chain, printed>>

\* saveas and the last message
Save ==
    /\ pc = "save"
    /\ printed' = nb_lines
    /\ pc' = "done"
    /\ UNCHANGED <<radius, skip, pending, error, points, first, memory, i,
                   nb_lines, p, r, new_p, added, nb_arc, nb_line, chain, types>>

Next ==
    \/ Main
    \/ NextEntity
    \/ NoMoreEntity
    \/ Vertex
    \/ CloseContour
    \/ DeleteEntity
    \/ Checks
    \/ Save

Spec == Init /\ [][Next]_vars

(***************************************************************************)
(* What the properties below speak of.                                     *)
(***************************************************************************)

\* The entities of a given type among those added for the current contour.
OfType(t) == SelectSeq(added, LAMBDA e : e.type = t)

\* The last arc added for the current contour.
LastArc == OfType("ARC")[Len(OfType("ARC"))]

\* A step of the loop over the vertices: a turn that ends, or one in which
\* add_fillet raises.
VertexStep == pc = "vertex" /\ (i' = i + 1 \/ pc' = "failed")

\* The square of the distance between two points.
Dist2(a, b) == (b[1] - a[1]) * (b[1] - a[1]) + (b[2] - a[2]) * (b[2] - a[2])

\* The lengths of the two edges at the vertex of a triple.
Edge1(t) == Sqrt(Dist2(t[1], t[2]))
Edge2(t) == Sqrt(Dist2(t[2], t[3]))

\* Both edges at the vertex are longer than twice the radius.
Fits(t) == Dist2(t[1], t[2]) > 4 * radius * radius
           /\ Dist2(t[2], t[3]) > 4 * radius * radius

\* The shorter of the two edges at the vertex.
Shorter(t) == IF Edge1(t) < Edge2(t) THEN Edge1(t) ELSE Edge2(t)

\* In this step add_fillet was called with radius x: it added an arc of that
\* radius, or it raised.
FilletedWith(x) ==
    /\ r' = x
    /\ \/ pc' = "failed" /\ error' = "ZeroDivisionError" /\ nb_arc' = nb_arc
       \/ /\ pc' = "vertex" /\ nb_arc' = nb_arc + 1
          /\ \E k \in Len(added) + 1..Len(added') :
                 added'[k].type = "ARC" /\ added'[k].radius = x

\* In this step no arc was added and no fillet was tried: the vertex is a
\* straight corner of the rebuilt contour.
PassedThrough ==
    /\ r' = 0
    /\ pc' = "vertex"
    /\ nb_arc' = nb_arc
    /\ memory' = p'[2]
    /\ \A k \in Len(added) + 1..Len(added') : added'[k].type = "LINE"

(***************************************************************************)
(* C1, as amended.  At every vertex, with R = abs(radius): when both edges *)
(* are longer than 2R, add_fillet is called with radius R; otherwise, when *)
(* skip is False and neither edge has length 0, it is called with half the *)
(* shorter edge; otherwise (skip is True, or an edge has length 0) no arc  *)
(* is added and the vertex is passed through as a straight corner.         *)
(***************************************************************************)
C1_RadiusChoice ==
    [][VertexStep =>
          IF Fits(p') THEN FilletedWith(radius)
          ELSE IF ~skip /\ Shorter(p') > 0 THEN FilletedWith(Shorter(p') \div 2)
          ELSE PassedThrough]_vars

\* C1 as stated: when the radius does not fit and skip is False, the vertex
\* is always filleted, with half the shorter edge.
C1_AsStated ==
    [][VertexStep =>
          IF Fits(p') THEN FilletedWith(radius)
          ELSE IF ~skip THEN FilletedWith(Shorter(p') \div 2)
          ELSE PassedThrough]_vars

\* Edges 6 and 6 with radius 5 and skip False: an arc of radius 3 was added.
C1_Witness ==
    /\ p # None /\ Edge1(p) = 60 /\ Edge2(p) = 60
    /\ radius = 50 /\ ~skip /\ error = "none"
    /\ r = 30
    /\ Len(OfType("ARC")) > 0 /\ LastArc.radius = 30

\* The contour being rebuilt, each vertex rounded as the loop rounds it.
Rounded == [k \in 1..Len(points) |-> CHOOSE q \in RoundPoint(points[k]) : TRUE]

Sgn(x) == IF x > 0 THEN 1 ELSE IF x < 0 THEN -1 ELSE 0

\* The direction of an axis-aligned vector, as a unit vector.
Unit(v) == <<Sgn(v[1]), Sgn(v[2])>>

Minus(a, b) == <<a[1] - b[1], a[2] - b[2]>>

\* a + k*u
Plus(a, k, u) == <<a[1] + k * u[1], a[2] + k * u[2]>>

AxisAligned(v) == (v[1] = 0) # (v[2] = 0)

Cross(u, v) == u[1] * v[2] - u[2] * v[1]

Dot(u, v) == u[1] * v[1] + u[2] * v[2]

\* Edge k of a contour q of n vertices, from q[k] to the next vertex.
EdgeOf(q, k) == Minus(q[(k % Len(q)) + 1], q[k])

\* q is an axis-aligned rectangle, given by its four corners in order.
IsRectangle(q) ==
    /\ Len(q) = 4
    /\ \A k \in 1..4 : AxisAligned(EdgeOf(q, k))
    /\ \A k \in 1..4 : Dot(EdgeOf(q, k), EdgeOf(q, (k % 4) + 1)) = 0

\* The line that rounding the two ends of edge k with radius R leaves of it.
RestOfEdge(q, k, R) ==
    Line(Plus(q[k], R, Unit(EdgeOf(q, k))),
         Plus(q[(k % Len(q)) + 1], -R, Unit(EdgeOf(q, k))))

(***************************************************************************)
(* C3.  For an axis-aligned rectangle of 4 vertices whose sides are all    *)
(* longer than 2*radius, main adds exactly 4 arcs and exactly 4 lines, one *)
(* line on each side, of length side - 2*radius.                           *)
(***************************************************************************)
C3_RectangleRebuilt ==
    (pc = "delete" /\ IsRectangle(Rounded)
       /\ \A k \in 1..4 : Dist2(Rounded[k], Rounded[(k % 4) + 1]) > 4 * radius * radius)
    => /\ Len(OfType("ARC")) = 4
       /\ Len(OfType("LINE")) = 4
       /\ \A k \in 1..4 :
            LET on == {j \in 1..4 : OfType("LINE")[j] = RestOfEdge(Rounded, k, radius)}
            IN  /\ Cardinality(on) = 1
                /\ \A j \in on :
                     Distance(OfType("LINE")[j].start, OfType("LINE")[j].end)
                       = Distance(Rounded[k], Rounded[(k % 4) + 1]) - 2 * radius

\* The square of side 20 rebuilt with radius 5: 4 arcs, 4 lines of length 10.
C3_Witness ==
    /\ pc = "delete"
    /\ Rounded = Rectangle(200, 200)
    /\ radius = 50
    /\ Len(OfType("ARC")) = 4
    /\ Len(OfType("LINE")) = 4
    /\ \A j \in 1..4 : Distance(OfType("LINE")[j].start, OfType("LINE")[j].end) = 100

\* The vertex of the triple t is an axis-aligned right-angle corner.
RightAngle(t) ==
    /\ AxisAligned(Minus(t[1], t[2]))
    /\ AxisAligned(Minus(t[3], t[2]))
    /\ Dot(Minus(t[1], t[2]), Minus(t[3], t[2])) = 0

\* The last turn of the loop filleted its vertex.
JustFilleted == p # None /\ r # 0 /\ error = "none"

(***************************************************************************)
(* C4.  On an axis-aligned right-angle corner with unit edge directions u1 *)
(* (towards p0) and u2 (towards p2), add_fillet adds an arc of centre      *)
(* p1 + r*(u1+u2) and returns (p1 + r*u1, p1 + r*u2), in this order, for   *)
(* both turn directions.                                                   *)
(***************************************************************************)
C4_RightAngleFillet ==
    (JustFilleted /\ RightAngle(p))
    => LET u1 == Unit(Minus(p[1], p[2]))
           u2 == Unit(Minus(p[3], p[2]))
       IN  /\ LastArc.center = Plus(Plus(p[2], r, u1), r, u2)
           /\ LastArc.radius = r
           /\ new_p = <<Plus(p[2], r, u1), Plus(p[2], r, u2)>>

\* p0 = (0,10), p1 = (0,0), p2 = (10,0), radius 5: centre (5,5), tangent
\* points (0,5) and (5,0).
C4_Witness ==
    /\ JustFilleted
    /\ p = <<<<0, 100>>, <<0, 0>>, <<100, 0>>>>
    /\ r = 50
    /\ LastArc.center = <<50, 50>>
    /\ new_p = <<<<0, 50>>, <<50, 0>>>>

\* The two edges at the vertex of t lie on one line: in the same direction
\* from the vertex (angle difference 0), or in opposite directions (pi).
SameDirection(t) ==
    /\ Cross(Minus(t[1], t[2]), Minus(t[3], t[2])) = 0
    /\ Dot(Minus(t[1], t[2]), Minus(t[3], t[2])) > 0

Opposite(t) ==
    /\ Cross(Minus(t[1], t[2]), Minus(t[3], t[2])) = 0
    /\ Dot(Minus(t[1], t[2]), Minus(t[3], t[2])) < 0

\* The divisor math.sin(abs(angle2 - angle1) / 2) of add_fillet on t is zero.
ZeroDivisor(t) ==
    Divisor(Atan2(t[1][2] - t[2][2], t[1][1] - t[2][1]),
            Atan2(t[3][2] - t[2][2], t[3][1] - t[2][1])) = 0

\* In this step add_fillet raised, and added no arc.
FilletFails ==
    pc' = "failed" /\ error' = "ZeroDivisionError" /\ added' = added /\ nb_arc' = nb_arc

(***************************************************************************)
(* C8, as amended.  At a filleted vertex whose two edges lie in the same   *)
(* direction (angle difference 0) the divisor sin(|angle2 - angle1| / 2)   *)
(* is zero, the fillet computation fails and no arc is added.  At one      *)
(* whose edges are opposite (angle difference pi) the divisor is           *)
(* sin(pi/2) = 1, not zero: the computation succeeds and an arc is added.  *)
(***************************************************************************)
C8_CollinearEdges ==
    [][(VertexStep /\ r' # 0) =>
          /\ SameDirection(p') => (ZeroDivisor(p') /\ FilletFails)
          /\ Opposite(p') =>
               (~ZeroDivisor(p') /\ pc' = "vertex" /\ nb_arc' = nb_arc + 1)]_vars

\* C8 as stated: in both cases the divisor is zero, the computation fails and
\* no arc is added.
C8_AsStated ==
    [][(VertexStep /\ r' # 0 /\ (SameDirection(p') \/ Opposite(p')))
          => (ZeroDivisor(p') /\ FilletFails)]_vars

\* Both cases in one run: vertex 0, a straight-through vertex, got its arc,
\* and the fillet of vertex 1, whose edges lie in the same direction, failed.
C8_Witness ==
    /\ p # None /\ r # 0 /\ i = 1
    /\ SameDirection(p) /\ error = "ZeroDivisionError"
    /\ Opposite(<<Rounded[Len(points)], Rounded[1], Rounded[2]>>)
    /\ Len(OfType("ARC")) = 1

(***************************************************************************)
(* C2.  The primitives main adds for a non-empty contour, when no fillet   *)
(* computation fails, form a closed chain: each one starts where the one   *)
(* before it ends, and the closing line ends where the first one starts.   *)
(***************************************************************************)
C2_ClosedChain ==
    pc = "delete" =>
        /\ Len(chain) > 0
        /\ \A k \in 1..Len(chain) - 1 : chain[k][2] = chain[k + 1][1]
        /\ chain[Len(chain)][2] = chain[1][1]

(***************************************************************************)
(* C5.  At every filleted vertex whose edges do not lie on one line, each  *)
(* tangent point is no farther from p1 than the end of its edge (within    *)
(* one step of the rounding).                                              *)
(***************************************************************************)
C5_TangentOnEdges ==
    (JustFilleted /\ Cross(Minus(p[1], p[2]), Minus(p[3], p[2])) # 0)
    => /\ Distance(p[2], new_p[1]) <= Edge1(p) + Grid
       /\ Distance(p[2], new_p[2]) <= Edge2(p) + Grid

\* A point whose coordinates are rounded to 3 decimals.
OnGrid(q) == q[1] % Grid = 0 /\ q[2] % Grid = 0

(***************************************************************************)
(* C6.  Every coordinate main and add_fillet put into the drawing (the arc *)
(* centres, the two ends of every line) is rounded to 3 decimals.          *)
(***************************************************************************)
C6_RoundedCoordinates ==
    \A k \in 1..Len(added) :
        IF added[k].type = "ARC" THEN OnGrid(added[k].center)
        ELSE OnGrid(added[k].start) /\ OnGrid(added[k].end)

(***************************************************************************)
(* C7.  When get_points gives an empty list, main skips the contour: it    *)
(* adds nothing, raises nothing and goes on with the loop.                 *)
(***************************************************************************)
C7_EmptyContourSkipped ==
    [][(pc = "entity" /\ pending' = pending - 1 /\ Len(points') = 0)
          => (error' = "none" /\ pc' # "failed" /\ added' = added)]_vars

(***************************************************************************)
(* C9.  Every connecting line (every line added before the closing line)   *)
(* has two distinct ends, and none is added at vertex 0.                   *)
(***************************************************************************)
C9_NoZeroLengthConnectingLine ==
    pc = "vertex" =>
        /\ \A k \in 1..Len(added) :
               added[k].type = "LINE" => added[k].start # added[k].end
        /\ i <= 1 => Len(OfType("LINE")) = 0

(***************************************************************************)
(* C10.  The number of lines main prints at the end is the number of LINE  *)
(* entities it added to the drawing.                                       *)
(***************************************************************************)
C10_PrintedLineCount ==
    pc = "done" => printed = types.LINE

=============================================================================
